---- MODULE Spec2Model ----
(***************************************************************************)
(* Model of the `todos` command-line tool (src/src/main.rs): the comment   *)
(* extractor CommentIterator, the label tracker CommentTracker and the     *)
(* per-entry driver do_file / main.                                        *)
(*                                                                         *)
(* A Rust string is a sequence of one-character strings, so that trim,     *)
(* starts_with, contains, lines, split_whitespace and join are computed    *)
(* the way the standard library computes them.                             *)
(***************************************************************************)
EXTENDS Integers, Sequences, FiniteSets, TLC

VARIABLES
    pc,                 \* position of the single thread of control
    contents,           \* do_file: the text read from the current file
    path,               \* do_file: entry.path() of the current entry
    it_lines,           \* CommentIterator.lines: Enumerate<Lines>, [iter, count]
    state,              \* next(): the local parser state FileState
    lines,              \* next(): the local Vec of lines of the current comment
    ret,                \* the value of the last completed call of next()
    emitted,            \* the items the caller has received from this iterator
    comments_by_kind,   \* CommentTracker.comments_by_kind
    observed,           \* the calls of found_possible_comment made so far
    walker,             \* main: the entries the directory walk has yet to yield
    warnings,           \* main: the "warn:" lines written to stderr
    total               \* main: the grand total printed by the summary

vars == <<pc, contents, path, it_lines, state, lines, ret, emitted,
          comments_by_kind, observed, walker, warnings, total>>

----------------------------------------------------------------------------
(* Bounds *)

\* Longest file, in lines.
MaxLines == 3

\* Longest comment text handed directly to the tracker, in words.
MaxWords == 3

----------------------------------------------------------------------------
(* Strings *)

\* char::is_whitespace, on the characters the model uses.
IsWhitespace(c) == c \in {" ", "\t", "\n", "\r"}

RECURSIVE TrimStart(_)
\* str::trim_start
TrimStart(s) ==
    IF s = <<>> THEN s
    ELSE IF IsWhitespace(Head(s)) THEN TrimStart(Tail(s))
    ELSE s

RECURSIVE TrimEnd(_)
\* str::trim_end
TrimEnd(s) ==
    IF s = <<>> THEN s
    ELSE IF IsWhitespace(s[Len(s)]) THEN TrimEnd(SubSeq(s, 1, Len(s) - 1))
    ELSE s

\* raw_line.trim_start().trim_end()
Trim(s) == TrimEnd(TrimStart(s))

\* str::starts_with(&str)
StartsWith(s, p) == Len(s) >= Len(p) /\ SubSeq(s, 1, Len(p)) = p

\* str::ends_with(char)
EndsWith(s, c) == s /= <<>> /\ s[Len(s)] = c

\* str::contains(&str)
Contains(s, p) ==
    \E i \in 1..(Len(s) - Len(p) + 1) : SubSeq(s, i, i + Len(p) - 1) = p

\* Index of the first "\n" of s, or 0.
NewlineAt(s) ==
    IF \E i \in 1..Len(s) : s[i] = "\n"
    THEN CHOOSE i \in 1..Len(s) : s[i] = "\n" /\ \A j \in 1..(i - 1) : s[j] /= "\n"
    ELSE 0

\* One line without its terminator: a "\r" right before the "\n" goes too.
StripCr(l) == IF EndsWith(l, "\r") THEN SubSeq(l, 1, Len(l) - 1) ELSE l

RECURSIVE StrLines(_)
\* str::lines: split at "\n" (or "\r\n"); the last line needs no terminator, and
\* a terminator at the very end does not open an empty last line.
StrLines(s) ==
    IF s = <<>> THEN <<>>
    ELSE LET i == NewlineAt(s) IN
         IF i = 0 THEN <<s>>
         ELSE <<StripCr(SubSeq(s, 1, i - 1))>> \o StrLines(SubSeq(s, i + 1, Len(s)))

RECURSIVE WordEnd(_, _)
\* Index of the last character of the word of s that starts at i.
WordEnd(s, i) ==
    IF i < Len(s) /\ ~IsWhitespace(s[i + 1]) THEN WordEnd(s, i + 1) ELSE i

RECURSIVE SplitFrom(_, _)
\* The words of s from index i on.
SplitFrom(s, i) ==
    IF i > Len(s) THEN <<>>
    ELSE IF IsWhitespace(s[i]) THEN SplitFrom(s, i + 1)
    ELSE LET e == WordEnd(s, i) IN <<SubSeq(s, i, e)>> \o SplitFrom(s, e + 1)

\* str::split_whitespace
SplitWhitespace(s) == SplitFrom(s, 1)

RECURSIVE Concat(_)
\* [String]::join(""): the concatenation of a sequence of strings
Concat(ss) == IF ss = <<>> THEN <<>> ELSE Head(ss) \o Concat(Tail(ss))

\* The decimal digits.
Digits == <<"0", "1", "2", "3", "4", "5", "6", "7", "8", "9">>

RECURSIVE Decimal(_)
\* format!("{}", n) of a usize
Decimal(n) ==
    IF n < 10 THEN <<Digits[n + 1]>>
    ELSE Decimal(n \div 10) \o <<Digits[(n % 10) + 1]>>

\* All sequences over S of length at most n.
SeqsUpTo(S, n) == UNION {[1..k -> S] : k \in 0..n}

----------------------------------------------------------------------------
(* The texts the model reads *)

\* "//" and "/*" and "*/"
LineMark == <<"/", "/">>
BlockOpen == <<"/", "*">>
BlockClose == <<"*", "/">>

\* Raw lines of the files given to the extractor alone.
IterPool ==
    { <<"/", "/", " ", "f", "o", "o">>,
      <<"/", "/", " ", "b", "a", "r">>,
      <<" ", "/", "/", "x", "\t">>,
      <<"/", "*", " ", "f", "o", "o">>,
      <<"b", "a", "r">>,
      <<" ", "*", "/", " ">>,
      <<"/", "*", "x", "*", "/">>,
      <<>> }

\* The text of a file with the given raw lines; nl: the last line is terminated.
TextOf(ls, nl) ==
    LET all == Concat([i \in 1..Len(ls) |-> ls[i] \o <<"\n">>])
    IN IF nl \/ all = <<>> THEN all ELSE SubSeq(all, 1, Len(all) - 1)

----------------------------------------------------------------------------
(* CommentIterator *)

NoComment == [kind |-> "NoComment", start |-> 0]
InLineComment(n) == [kind |-> "InLineComment", start |-> n]
InBlockComment(n) == [kind |-> "InBlockComment", start |-> n]

\* Option<(usize, String)>
None == [tag |-> "None", start |-> 0, text |-> <<>>]
\* No call of next() has returned yet.
Pending == [tag |-> "Pending", start |-> 0, text |-> <<>>]
Some(n, s) == [tag |-> "Some", start |-> n, text |-> s]

\* CommentIterator::new
NewIterator(input) == [iter |-> StrLines(input), count |-> 0]

\* Mutant of Join: the lines joined with "\n" between them, none after the last.
JoinSeparated(ls) ==
    Concat([i \in 1..Len(ls) |-> IF i < Len(ls) THEN ls[i] \o <<"\n">> ELSE ls[i]])

\* CommentIterator::join
Join(ls) == Concat([i \in 1..Len(ls) |-> ls[i] \o <<"\n">>])

\* next(), lines 242 and 263: the trimmed line is (part of) a line comment.
IsLineComment(line) == StartsWith(line, LineMark)

\* Mutant of OpensBlock: any line that starts with "/*" opens a block comment.
OpensBlockAnyOpen(line) == StartsWith(line, BlockOpen)

\* next(), line 249: the trimmed line opens a block comment.
OpensBlock(line) == StartsWith(line, BlockOpen) /\ ~Contains(line, BlockClose)

\* next(), line 274: the trimmed line closes the block comment.
ClosesBlock(line) == line = BlockClose

\* Mutant of InNoComment: the block starts at the 0-based line number.
InNoCommentZeroBased(ls, line_numz, line) ==
    IF IsLineComment(line)
    THEN [state |-> InLineComment(line_numz), lines |-> Append(ls, line),
          returns |-> FALSE, value |-> None]
    ELSE IF OpensBlock(line)
    THEN [state |-> InBlockComment(line_numz), lines |-> Append(ls, line),
          returns |-> FALSE, value |-> None]
    ELSE [state |-> NoComment, lines |-> ls, returns |-> FALSE, value |-> None]

\* Mutant of InNoComment: the first line of a comment is not pushed.
InNoCommentNoPush(ls, line_numz, line) ==
    IF IsLineComment(line)
    THEN [state |-> InLineComment(line_numz + 1), lines |-> ls,
          returns |-> FALSE, value |-> None]
    ELSE IF OpensBlock(line)
    THEN [state |-> InBlockComment(line_numz + 1), lines |-> ls,
          returns |-> FALSE, value |-> None]
    ELSE [state |-> NoComment, lines |-> ls, returns |-> FALSE, value |-> None]

\* Mutant of InNoComment: a line that starts no comment is pushed all the same.
InNoCommentPushesAll(ls, line_numz, line) ==
    IF IsLineComment(line)
    THEN [state |-> InLineComment(line_numz + 1), lines |-> Append(ls, line),
          returns |-> FALSE, value |-> None]
    ELSE IF OpensBlock(line)
    THEN [state |-> InBlockComment(line_numz + 1), lines |-> Append(ls, line),
          returns |-> FALSE, value |-> None]
    ELSE [state |-> NoComment, lines |-> Append(ls, line),
          returns |-> FALSE, value |-> None]

\* next(), lines 241-260: one line read in state NoComment.  Nothing is returned.
InNoComment(ls, line_numz, line) ==
    IF IsLineComment(line)
    THEN [state |-> InLineComment(line_numz + 1), lines |-> Append(ls, line),
          returns |-> FALSE, value |-> None]
    ELSE IF OpensBlock(line)
    THEN [state |-> InBlockComment(line_numz + 1), lines |-> Append(ls, line),
          returns |-> FALSE, value |-> None]
    ELSE [state |-> NoComment, lines |-> ls, returns |-> FALSE, value |-> None]

\* next(), lines 262-270: one line read in state InLineComment(start).
InLine(start, ls, line) ==
    IF ~IsLineComment(line)
    THEN [state |-> InLineComment(start), lines |-> ls,
          returns |-> TRUE, value |-> Some(start, Join(ls))]
    ELSE [state |-> InLineComment(start), lines |-> Append(ls, line),
          returns |-> FALSE, value |-> None]

\* Mutant of InBlock: a line that opens a block comment opens an inner one,
\* which the block goes on from; start is where the outermost one began.
InBlockNested(start, ls, line) ==
    LET pushed == IF OpensBlock(line) THEN <<line>> ELSE Append(ls, line) IN
    IF ClosesBlock(line)
    THEN [state |-> InBlockComment(start), lines |-> pushed,
          returns |-> TRUE, value |-> Some(start, Join(pushed))]
    ELSE [state |-> InBlockComment(start), lines |-> pushed,
          returns |-> FALSE, value |-> None]

\* next(), lines 272-278: one line read in state InBlockComment(start).
InBlock(start, ls, line) ==
    LET pushed == Append(ls, line) IN
    IF ClosesBlock(line)
    THEN [state |-> InBlockComment(start), lines |-> pushed,
          returns |-> TRUE, value |-> Some(start, Join(pushed))]
    ELSE [state |-> InBlockComment(start), lines |-> pushed,
          returns |-> FALSE, value |-> None]

\* next(), lines 240-279: the match on the state for one line.
LoopBody(st, ls, line_numz, line) ==
    CASE st.kind = "NoComment" -> InNoComment(ls, line_numz, line)
      [] st.kind = "InLineComment" -> InLine(st.start, ls, line)
      [] st.kind = "InBlockComment" -> InBlock(st.start, ls, line)

\* Mutant of AtEof: a block comment the end of the file cuts short is dropped.
AtEofDropsBlock(st, ls) ==
    CASE st.kind = "NoComment" -> None
      [] st.kind = "InLineComment" -> Some(st.start, Join(ls))
      [] st.kind = "InBlockComment" -> None

\* next(), lines 282-301: the value returned when the lines have run out.
AtEof(st, ls) ==
    CASE st.kind = "NoComment" -> None
      [] st.kind = "InLineComment" -> Some(st.start, Join(ls))
      [] st.kind = "InBlockComment" -> Some(st.start, Join(ls))

\* The variables next() never touches.
OutsideIterator ==
    <<contents, path, comments_by_kind, observed, walker, warnings, total>>

\* Mutant of NextEnter: the lines of the last comment are not cleared.
NextEnterKeepsLines ==
    /\ pc = "next"
    /\ state' = NoComment
    /\ pc' = "while"
    /\ UNCHANGED <<it_lines, lines, ret, emitted>>
    /\ UNCHANGED OutsideIterator

\* next(), lines 231-234: a call starts in NoComment with no lines collected.
NextEnter ==
    /\ pc = "next"
    /\ state' = NoComment
    /\ lines' = <<>>
    /\ pc' = "while"
    /\ UNCHANGED <<it_lines, ret, emitted>>
    /\ UNCHANGED OutsideIterator

\* next(), lines 237-280: self.lines.next() yields a line; one turn of the loop.
NextLoop ==
    /\ pc = "while"
    /\ it_lines.iter /= <<>>
    /\ LET line_numz == it_lines.count
           raw_line == Head(it_lines.iter)
           line == Trim(raw_line)
           r == LoopBody(state, lines, line_numz, line)
       IN /\ it_lines' = [iter |-> Tail(it_lines.iter), count |-> it_lines.count + 1]
          /\ state' = r.state
          /\ lines' = r.lines
          /\ ret' = IF r.returns THEN r.value ELSE ret
          /\ pc' = IF r.returns THEN "item" ELSE "while"
    /\ UNCHANGED emitted
    /\ UNCHANGED OutsideIterator

\* Mutant of NextEof: an exhausted iterator starts over from the first line.
NextEofRewinds ==
    /\ pc = "while"
    /\ it_lines.iter = <<>>
    /\ ret' = AtEof(state, lines)
    /\ pc' = "item"
    /\ it_lines' = NewIterator(contents)
    /\ UNCHANGED <<state, lines, emitted>>
    /\ UNCHANGED OutsideIterator

\* next(), lines 237 and 282-301: self.lines.next() yields None; the loop ends.
NextEof ==
    /\ pc = "while"
    /\ it_lines.iter = <<>>
    /\ ret' = AtEof(state, lines)
    /\ pc' = "item"
    /\ UNCHANGED <<it_lines, state, lines, emitted>>
    /\ UNCHANGED OutsideIterator

----------------------------------------------------------------------------
(* The extractor alone: one file text, next() called again and again *)

\* A caller that keeps calling next(), whatever it returned.
IterTake ==
    /\ pc = "item"
    /\ emitted' = IF ret.tag = "Some" THEN Append(emitted, ret) ELSE emitted
    /\ pc' = "next"
    /\ UNCHANGED <<it_lines, state, lines, ret>>
    /\ UNCHANGED OutsideIterator

\* The index of a tracker that has seen nothing: BTreeMap::new().
EmptyIndex == [k \in {} |-> <<>>]

InitIter ==
    /\ \E ls \in SeqsUpTo(IterPool, MaxLines), nl \in BOOLEAN :
          /\ contents = TextOf(ls, nl)
          /\ it_lines = NewIterator(contents)
    /\ pc = "next"
    /\ path = <<>>
    /\ state = NoComment
    /\ lines = <<>>
    /\ ret = Pending
    /\ emitted = <<>>
    /\ comments_by_kind = EmptyIndex
    /\ observed = <<>>
    /\ walker = <<>>
    /\ warnings = <<>>
    /\ total = 0

NextIter == NextEnter \/ NextLoop \/ NextEof \/ IterTake

SpecIter == InitIter /\ [][NextIter]_vars

\* next() and its caller are never suspended for ever.
SpecIterFair == SpecIter /\ WF_vars(NextIter)

----------------------------------------------------------------------------
(* CommentTracker *)

\* The prefixes that make a word TODO-like (lines 171-173).
XXX == <<"X", "X", "X">>
FIXME == <<"F", "I", "X", "M", "E">>
TODO == <<"T", "O", "D", "O">>

\* Mutant of IsMarker: the word has XXX, FIXME or TODO anywhere in it.
IsMarkerAnywhere(word) ==
    Contains(word, XXX) \/ Contains(word, FIXME) \/ Contains(word, TODO)

\* Mutant of IsMarker: the word is XXX, FIXME or TODO, with or without a ":".
IsMarkerWholeWord(word) ==
    \E m \in {XXX, FIXME, TODO} : word = m \/ word = m \o <<":">>

\* found_possible_comment, lines 171-173: the word is TODO-like.
IsMarker(word) ==
    StartsWith(word, XXX) \/ StartsWith(word, FIXME) \/ StartsWith(word, TODO)

\* Mutant of LabelOf: the trailing ":" stays.
LabelOfKeepsColon(word) == word

\* Mutant of LabelOf: a trailing "-" is stripped like a trailing ":".
LabelOfStripsDash(word) ==
    IF EndsWith(word, ":") \/ EndsWith(word, "-")
    THEN SubSeq(word, 1, Len(word) - 1)
    ELSE word

\* found_possible_comment, lines 175-180: the label of a TODO-like word.
LabelOf(word) ==
    IF EndsWith(word, ":") THEN SubSeq(word, 1, Len(word) - 1) ELSE word

\* Mutant of FoundKinds: the loop over the words stops at the first TODO-like word.
FoundKindsFirstOnly(text) ==
    LET words == SplitWhitespace(text)
        hits == {j \in 1..Len(words) : IsMarker(words[j])}
    IN {LabelOf(words[i]) : i \in {j \in hits : \A h \in hits : j <= h}}

\* found_possible_comment, lines 163-183: the BTreeSet found_kinds.
FoundKinds(text) ==
    LET words == SplitWhitespace(text)
    IN {LabelOf(words[i]) : i \in {j \in 1..Len(words) : IsMarker(words[j])}}

\* "line "
LinePrefix == <<"l", "i", "n", "e", " ">>

\* found_possible_comment, lines 190-194: the Comment pushed for every kind.
Comment(text, file, line) ==
    [contents |-> text, file |-> file, location |-> LinePrefix \o Decimal(line)]

RECURSIVE PushPerWord(_, _, _)
\* The index after the comment c has been pushed for every word of ws in turn.
PushPerWord(index, ws, c) ==
    IF ws = <<>> THEN index
    ELSE LET k == LabelOf(Head(ws))
             pushed == [x \in DOMAIN index \cup {k} |->
                           IF x = k
                           THEN Append(IF k \in DOMAIN index THEN index[k] ELSE <<>>, c)
                           ELSE index[x]]
         IN PushPerWord(IF IsMarker(Head(ws)) THEN pushed ELSE index, Tail(ws), c)

\* Mutant of FoundPossibleComment: no set of kinds; the comment is pushed for
\* every TODO-like word as it is met.
FoundPossibleCommentPerWord(index, text, file, line) ==
    PushPerWord(index, SplitWhitespace(text), Comment(text, file, line))

\* Mutant of FoundPossibleComment: the list of a kind is replaced by a list of
\* this comment alone (insert instead of entry().or_insert_with().push()).
FoundPossibleCommentOverwrites(index, text, file, line) ==
    LET kinds == FoundKinds(text)
    IN [k \in DOMAIN index \cup kinds |->
           IF k \in kinds THEN <<Comment(text, file, line)>> ELSE index[k]]

\* found_possible_comment, lines 185-195: the index after the comment has been
\* pushed once on the list of every kind found (the kinds are distinct keys, so
\* the order of the loop over found_kinds does not show in the result).
FoundPossibleComment(index, text, file, line) ==
    LET kinds == FoundKinds(text)
    IN [k \in DOMAIN index \cup kinds |->
           IF k \in kinds
           THEN Append(IF k \in DOMAIN index THEN index[k] ELSE <<>>,
                       Comment(text, file, line))
           ELSE index[k]]

----------------------------------------------------------------------------
(* main and do_file *)

\* Raw lines of the files of the scanned tree.
FilePool ==
    { <<" ", "/", "/", " ", "T", "O", "D", "O", ":", " ", "f", "i", "x">>,
      <<"/", "*", " ", "X", "X", "X", " ", "n", "o", "p", "e">>,
      <<"*", "/">>,
      <<"/", "/", " ", "t", "o", "d", "o", " ", "a", "T", "O", "D", "O">> }

\* The texts a file of at most n lines may hold.
FileTexts(n) == {TextOf(ls, TRUE) : ls \in SeqsUpTo(FilePool, n)}

\* The entries of the walk, in the order walkdir yields them: the path of each
\* and the most lines the file may have.  The first file is the shorter one.
Walk ==
    << [path |-> <<"a", ".", "r", "s">>, lines |-> MaxLines - 1],
       [path |-> <<"s", "/", "b", ".", "r", "s">>, lines |-> MaxLines],
       [path |-> <<"R", "E", "A", "D", "M", "E">>, lines |-> MaxLines] >>

\* Index of the last "." of the file name of p (after the last "/"), or 0.
LastDot(p) ==
    LET dots == {i \in 1..Len(p) : p[i] = "." /\ \A j \in i..Len(p) : p[j] /= "/"}
    IN IF dots = {} THEN 0 ELSE CHOOSE i \in dots : \A j \in dots : j <= i

\* Path::extension: what follows the last "." of the file name, when that "."
\* is not the first character of the file name.
Extension(p) ==
    LET d == LastDot(p)
    IN IF d = 0 \/ d = 1 \/ p[d - 1] = "/" THEN <<>> ELSE SubSeq(p, d + 1, Len(p))

\* do_file, lines 105-110: the entry is a Rust source file by its name.
IsRust(p) == Extension(p) = <<"r", "s">>

\* The variables of the iterator and of its caller's loop.
IteratorVars == <<contents, path, it_lines, state, lines, ret, emitted>>

\* main, lines 53-57, with do_file, lines 96-99: walkdir failed to read the
\* entry; do_file returns the error and main prints a warning.
DoFileWalkError ==
    /\ pc = "main"
    /\ walker /= <<>>
    /\ walker' = Tail(walker)
    /\ warnings' = Append(warnings, [context |-> "walking tree", path |-> <<>>])
    /\ UNCHANGED <<pc, comments_by_kind, observed, total>>
    /\ UNCHANGED IteratorVars

\* do_file, lines 105-110 and 119-121: the entry is not named *.rs, or it is
\* but is no regular file; do_file returns Ok and nothing is printed.
DoFileSkip ==
    /\ pc = "main"
    /\ walker /= <<>>
    /\ \E regular \in BOOLEAN : ~IsRust(Head(walker).path) \/ ~regular
    /\ walker' = Tail(walker)
    /\ UNCHANGED <<pc, comments_by_kind, observed, warnings, total>>
    /\ UNCHANGED IteratorVars

\* Mutant of DoFileFail: main passes the error on (do_file(..)?) and ends there.
DoFileFailAborts ==
    /\ pc = "main"
    /\ walker /= <<>>
    /\ IsRust(Head(walker).path)
    /\ \E failed \in {"open", "metadata for", "read"} :
          warnings' = Append(warnings, [context |-> failed, path |-> Head(walker).path])
    /\ pc' = "aborted"
    /\ UNCHANGED <<walker, comments_by_kind, observed, total>>
    /\ UNCHANGED IteratorVars

\* do_file, lines 114-118 and 125-126: open, metadata or read_to_string fails;
\* do_file returns the error and main prints a warning.
DoFileFail ==
    /\ pc = "main"
    /\ walker /= <<>>
    /\ IsRust(Head(walker).path)
    /\ walker' = Tail(walker)
    /\ \E failed \in {"open", "metadata for", "read"} :
          warnings' = Append(warnings, [context |-> failed, path |-> Head(walker).path])
    /\ UNCHANGED <<pc, comments_by_kind, observed, total>>
    /\ UNCHANGED IteratorVars

\* do_file, lines 101-129: the entry is a readable regular *.rs file; its text
\* is read and a CommentIterator is made over it.
DoFileRead ==
    /\ pc = "main"
    /\ walker /= <<>>
    /\ IsRust(Head(walker).path)
    /\ \E text \in FileTexts(Head(walker).lines) :
          /\ contents' = text
          /\ it_lines' = NewIterator(text)
    /\ path' = Head(walker).path
    /\ walker' = Tail(walker)
    /\ emitted' = <<>>
    /\ ret' = Pending
    /\ pc' = "next"
    /\ UNCHANGED <<state, lines, comments_by_kind, observed, warnings, total>>

\* do_file, lines 130-132: the loop body, for the item next() returned.
ForBody ==
    /\ pc = "item"
    /\ ret.tag = "Some"
    /\ comments_by_kind' = FoundPossibleComment(comments_by_kind, ret.text, path, ret.start)
    /\ observed' = Append(observed, [text |-> ret.text, file |-> path, line |-> ret.start])
    /\ emitted' = Append(emitted, ret)
    /\ pc' = "next"
    /\ UNCHANGED <<contents, path, it_lines, state, lines, ret, walker, warnings, total>>

\* do_file, lines 130 and 134: next() returned None; the loop ends, do_file
\* returns Ok and main goes on to the next entry.
DoFileReturn ==
    /\ pc = "item"
    /\ ret = None
    /\ pc' = "main"
    /\ UNCHANGED <<comments_by_kind, observed, walker, warnings, total>>
    /\ UNCHANGED IteratorVars

\* Mutant of SumOfLengths: the total is the number of labels.
SumOfLengthsCountsLabels(index, keys) == Cardinality(keys)

RECURSIVE SumOfLengths(_, _)
\* main, lines 79-84: total += comments.len() over the labels in keys.
SumOfLengths(index, keys) ==
    IF keys = {} THEN 0
    ELSE LET k == CHOOSE x \in keys : TRUE
         IN Len(index[k]) + SumOfLengths(index, keys \ {k})

\* main, lines 59-88: the walk is over; the report and the summary are printed.
Summary ==
    /\ pc = "main"
    /\ walker = <<>>
    /\ total' = SumOfLengths(comments_by_kind, DOMAIN comments_by_kind)
    /\ pc' = "done"
    /\ UNCHANGED <<comments_by_kind, observed, walker, warnings>>
    /\ UNCHANGED IteratorVars

Init ==
    /\ pc = "main"
    /\ walker = Walk
    /\ comments_by_kind = EmptyIndex
    /\ observed = <<>>
    /\ warnings = <<>>
    /\ total = 0
    /\ contents = <<>>
    /\ path = <<>>
    /\ it_lines = NewIterator(<<>>)
    /\ state = NoComment
    /\ lines = <<>>
    /\ ret = Pending
    /\ emitted = <<>>

Next ==
    \/ DoFileWalkError
    \/ DoFileSkip
    \/ DoFileFail
    \/ DoFileRead
    \/ NextEnter
    \/ NextLoop
    \/ NextEof
    \/ ForBody
    \/ DoFileReturn
    \/ Summary

Spec == Init /\ [][Next]_vars

----------------------------------------------------------------------------
(* The tracker alone: comment texts handed straight to found_possible_comment *)

\* The words of those texts.
WordPool ==
    { <<"T", "O", "D", "O">>,
      <<"T", "O", "D", "O", ":">>,
      <<"T", "O", "D", "O", ":", ":">>,
      <<"T", "O", "D", "O", "-">>,
      <<"T", "O", "D", "O", "-", "s", "e", "c", "u", "r", "i", "t", "y">>,
      <<"T", "O", "D", "O", "-", "c", "o", "v", "e", "r", "a", "g", "e">>,
      <<"T", "O", "D", "O", "i", "s", "t">>,
      <<"t", "o", "d", "o">>,
      <<"a", "T", "O", "D", "O">>,
      <<"X", "X", "X">>,
      <<"F", "I", "X", "M", "E", ":">> }

\* A comment of one line: "// ", the words with a blank between, a newline.
CommentOf(ws) ==
    <<"/", "/">> \o Concat([i \in 1..Len(ws) |-> <<" ">> \o ws[i]]) \o <<"\n">>

\* The comment texts of at most n words.
CommentTexts(n) == {CommentOf(ws) : ws \in SeqsUpTo(WordPool, n)}

\* The comments handed to the tracker: where each was found (file and line)
\* and how many words it may have.  The first is a short one.
TrackerCalls ==
    << [file |-> <<"a", ".", "r", "s">>, line |-> 1, words |-> 1],
       [file |-> <<"a", ".", "r", "s">>, line |-> 12, words |-> MaxWords] >>

\* One call of found_possible_comment (lines 157-196).
Observe ==
    /\ pc = "track"
    /\ Len(observed) < Len(TrackerCalls)
    /\ LET c == TrackerCalls[Len(observed) + 1]
       IN \E text \in CommentTexts(c.words) :
             /\ comments_by_kind' = FoundPossibleComment(comments_by_kind, text, c.file, c.line)
             /\ observed' = Append(observed, [text |-> text, file |-> c.file, line |-> c.line])
    /\ UNCHANGED <<pc, walker, warnings, total>>
    /\ UNCHANGED IteratorVars

InitTracker ==
    /\ pc = "track"
    /\ comments_by_kind = EmptyIndex
    /\ observed = <<>>
    /\ walker = <<>>
    /\ warnings = <<>>
    /\ total = 0
    /\ contents = <<>>
    /\ path = <<>>
    /\ it_lines = NewIterator(<<>>)
    /\ state = NoComment
    /\ lines = <<>>
    /\ ret = Pending
    /\ emitted = <<>>

NextTracker == Observe

SpecTracker == InitTracker /\ [][NextTracker]_vars

----------------------------------------------------------------------------
(* The file as the claims see it *)

\* The raw lines of the current file and their number.
FileLines == StrLines(contents)
NLines == Len(FileLines)

\* Line i (1-based) without its leading and trailing whitespace.
Trimmed(i) == Trim(FileLines[i])

\* Line i starts with "//"; starts with "/*" and has no "*/"; is exactly "*/".
SlashSlash(i) == StartsWith(Trimmed(i), <<"/", "/">>)
SlashStar(i) ==
    /\ StartsWith(Trimmed(i), <<"/", "*">>)
    /\ ~Contains(Trimmed(i), <<"*", "/">>)
StarSlash(i) == Trimmed(i) = <<"*", "/">>

\* Line i lies inside a block comment opened on an earlier line: some earlier
\* line starts with "/*" (without "*/") and no line between the two is "*/".
InsideBlock(i) ==
    \E j \in 1..(i - 1) :
        SlashStar(j) /\ \A k \in (j + 1)..(i - 1) : ~StarSlash(k)

\* Lines i..j are a maximal run of "//" lines.
IsRun(i, j) ==
    /\ i <= j
    /\ \A k \in i..j : SlashSlash(k)
    /\ (i > 1 => ~SlashSlash(i - 1))
    /\ (j < NLines => ~SlashSlash(j + 1))

\* The text of the block made of the lines i..j.
BlockText(i, j) == Concat([k \in 1..(j - i + 1) |-> Trimmed(i + k - 1) \o <<"\n">>])

\* The number of lines of a block's text.
NumLines(text) == Len(StrLines(text))

\* The iterator has reported exhaustion and the caller has every block.
Exhausted == pc = "item" /\ ret = None

\* The positions in `emitted` of the blocks that start in lines i..j.
StartingIn(i, j) == {n \in 1..Len(emitted) : emitted[n].start \in i..j}

\* C1: a line that ends a line-comment block is examined again: when it
\* starts with "/*" and has no "*/", a block that starts on that line is emitted.
C1_EndingLineReexamined ==
    Exhausted =>
        \A n \in 1..Len(emitted) :
            LET b == emitted[n]
                k == b.start + NumLines(b.text)
            IN (StartsWith(b.text, <<"/", "/">>) /\ k <= NLines /\ SlashStar(k))
                   => \E m \in 1..Len(emitted) : emitted[m].start = k

\* C2: every maximal run of "//" lines outside a block comment is emitted as
\* exactly one block, which starts at the first line of the run and is the run.
C2_RunIsOneBlock ==
    Exhausted =>
        \A i \in 1..NLines : \A j \in i..NLines :
            (IsRun(i, j) /\ ~InsideBlock(i)) =>
                /\ Cardinality(StartingIn(i, j)) = 1
                /\ \E n \in StartingIn(i, j) : emitted[n] = Some(i, BlockText(i, j))

\* A run of two lines or more that is not the start of the file is emitted.
C2_Witness ==
    /\ Exhausted
    /\ \E i \in 2..NLines : \E j \in (i + 1)..NLines :
           IsRun(i, j) /\ ~InsideBlock(i) /\ StartingIn(i, j) /= {}

\* The file of the two lines "// foo" and "// bar".
FooBar ==
    { TextOf(<< <<"/", "/", " ", "f", "o", "o">>, <<"/", "/", " ", "b", "a", "r">> >>, nl)
        : nl \in BOOLEAN }

\* C3 as stated: that file yields the one block "foo\nbar\n".
C3_TextWithoutMarkers ==
    (Exhausted /\ contents \in FooBar) =>
        emitted = << Some(1, <<"f", "o", "o", "\n", "b", "a", "r", "\n">>) >>

\* C3 amended: that file yields the one block "// foo\n// bar\n", at line 1.
C3_TextKeepsMarkers ==
    (Exhausted /\ contents \in FooBar) =>
        emitted = << Some(1, <<"/", "/", " ", "f", "o", "o", "\n",
                                "/", "/", " ", "b", "a", "r", "\n">>) >>

\* The file "// foo", "// bar" has been read to its end.
C3_Witness == Exhausted /\ contents \in FooBar /\ Len(emitted) = 1

\* The first line after i that is exactly "*/", or 0.
CloseAfter(i) ==
    IF \E k \in (i + 1)..NLines : StarSlash(k)
    THEN CHOOSE k \in (i + 1)..NLines :
             StarSlash(k) /\ \A m \in (i + 1)..(k - 1) : ~StarSlash(m)
    ELSE 0

\* C4: a block comment opened by a "/*" line (outside any block comment) and
\* closed by a later "*/" line is emitted as exactly one block, from the "/*"
\* line through the first "*/" line, starting at the "/*" line.
C4_BlockCommentIsOneBlock ==
    Exhausted =>
        \A i \in 1..NLines :
            (SlashStar(i) /\ ~InsideBlock(i) /\ CloseAfter(i) /= 0) =>
                /\ Cardinality(StartingIn(i, CloseAfter(i))) = 1
                /\ \E n \in StartingIn(i, CloseAfter(i)) :
                       emitted[n] = Some(i, BlockText(i, CloseAfter(i)))

\* The block has its terminator: a block comment ends with the line "*/"; a
\* line comment is followed by a line that does not start with "//".
Terminated(b) ==
    LET n == NumLines(b.text)
    IN IF StartsWith(b.text, <<"/", "*">>)
       THEN StrLines(b.text)[n] = <<"*", "/">>
       ELSE b.start + n <= NLines /\ ~SlashSlash(b.start + n)

\* C5: a call of next() returns None, and then the lines are exhausted, or one
\* block of at least one line; a block without its terminator is returned only
\* when the lines are exhausted.
C5_OneBlockOrNone ==
    pc = "item" =>
        \/ ret = None /\ it_lines.iter = <<>>
        \/ /\ ret.tag = "Some"
           /\ ret.text /= <<>>
           /\ NumLines(ret.text) >= 1
           /\ ret.start >= 1
           /\ (~Terminated(ret) => it_lines.iter = <<>>)

\* next() has returned a block without its terminator, and one with it.
C5_Witness == pc = "item" /\ ret.tag = "Some" /\ ~Terminated(ret) /\ emitted /= <<>>

\* The number of blocks next() has returned so far.
Yielded == Len(emitted) + (IF pc = "item" /\ ret.tag = "Some" THEN 1 ELSE 0)

\* C7: next() eventually returns None; it has returned at most as many blocks
\* as the text has lines; after None, every later call returns None.
C7_FiniteAndFused ==
    /\ <>(pc = "item" /\ ret = None)
    /\ [](Yielded <= NLines)
    /\ [][ret = None => ret' = None]_vars

\* After two blocks and None, next() has been called once more.
C7_Witness == pc = "while" /\ ret = None /\ Len(emitted) = 2

----------------------------------------------------------------------------
(* The index as the claims see it *)

\* The word is a marker word: it starts with XXX, FIXME or TODO.
MarkerWord(w) ==
    \/ StartsWith(w, <<"X", "X", "X">>)
    \/ StartsWith(w, <<"F", "I", "X", "M", "E">>)
    \/ StartsWith(w, <<"T", "O", "D", "O">>)

\* The marker words of a text, as a set.
MarkerWords(text) ==
    LET ws == SplitWhitespace(text)
    IN {ws[i] : i \in {j \in 1..Len(ws) : MarkerWord(ws[j])}}

\* The word without one trailing ":".
WithoutColon(w) ==
    IF w /= <<>> /\ w[Len(w)] = ":" THEN SubSeq(w, 1, Len(w) - 1) ELSE w

\* The distinct labels derived from a text.
DerivedLabels(text) == {WithoutColon(w) : w \in MarkerWords(text)}

\* The number of records under label L in the index.
Count(index, L) == IF L \in DOMAIN index THEN Len(index[L]) ELSE 0

\* The record is the record of the block (call) b: same file, line and text.
RecordOf(r, b) ==
    /\ r.contents = b.text
    /\ r.file = b.file
    /\ r.location = <<"l", "i", "n", "e", " ">> \o Decimal(b.line)

\* The number of records of the block b under label L.
Occurrences(index, L, b) ==
    IF L \in DOMAIN index
    THEN Cardinality({i \in 1..Len(index[L]) : RecordOf(index[L][i], b)})
    ELSE 0

\* This step is one call of found_possible_comment.
TrackerStep == Len(observed') = Len(observed) + 1

\* The block handed to the tracker in this step.
Handed == observed'[Len(observed')]

\* C6: when the lines run out in InLineComment or InBlockComment, next()
\* returns the lines from the starting line to the end of the file as a block
\* with that starting line; and any block next() returns is handed to the
\* tracker next, which appends its record under every label of its text.
C6_OpenBlockFlushed ==
    [][ /\ (pc = "while" /\ it_lines.iter = <<>> /\ state.kind /= "NoComment")
            => /\ pc' = "item"
               /\ ret' = Some(state.start, BlockText(state.start, NLines))
        /\ (pc = "item" /\ ret.tag = "Some")
            => /\ TrackerStep
               /\ Handed = [text |-> ret.text, file |-> path, line |-> ret.start]
               /\ \A L \in DerivedLabels(ret.text) :
                     /\ Count(comments_by_kind', L) = Count(comments_by_kind, L) + 1
                     /\ RecordOf(comments_by_kind'[L][Len(comments_by_kind'[L])], Handed)
      ]_vars

\* A block comment that the end of the file cut short is under its label.
C6_Witness ==
    /\ pc = "next"
    /\ it_lines.iter = <<>>
    /\ emitted /= <<>>
    /\ LET b == emitted[Len(emitted)]
       IN /\ b.start = 2
          /\ StartsWith(b.text, <<"/", "*">>)
          /\ ~Terminated(b)
          /\ <<"X", "X", "X">> \in DOMAIN comments_by_kind
          /\ Occurrences(comments_by_kind, <<"X", "X", "X">>,
                         [text |-> b.text, file |-> path, line |-> 2]) = 1

\* C8: a call whose text has one marker word, any number of times, and no
\* other marker word adds exactly one record to the index, under one label.
C8_OneRecordForRepeatedMarker ==
    [][ (TrackerStep /\ Cardinality(MarkerWords(Handed.text)) = 1)
            => /\ DOMAIN comments_by_kind \subseteq DOMAIN comments_by_kind'
               /\ \E L \in DOMAIN comments_by_kind' :
                     /\ Count(comments_by_kind', L) = Count(comments_by_kind, L) + 1
                     /\ \A K \in DOMAIN comments_by_kind' \ {L} :
                           Count(comments_by_kind', K) = Count(comments_by_kind, K)
      ]_vars

\* After a comment with another label, a text with the same marker word
\* several times and nothing else has been tracked.
C8_Witness ==
    /\ Len(observed) = 2
    /\ LET ws == SplitWhitespace(observed[2].text)
       IN /\ Len(ws) >= 3
          /\ MarkerWord(ws[2])
          /\ \A i \in 2..Len(ws) : ws[i] = ws[2]
          /\ Count(comments_by_kind, WithoutColon(ws[2])) = 1
    /\ Cardinality(DOMAIN comments_by_kind) = 2

\* C9: for every block handed to the tracker and every label L, the list of L
\* holds the record of the block once if L is one of the labels derived from
\* the block's text, and not at all otherwise.
C9_RecordUnderEachLabelOnce ==
    \A n \in 1..Len(observed) :
        LET b == observed[n]
            labels == DerivedLabels(b.text)
        IN \A L \in DOMAIN comments_by_kind \cup labels :
               Occurrences(comments_by_kind, L, b) = IF L \in labels THEN 1 ELSE 0

\* Both files are done; a block with two labels and a block from the other
\* file with one of them are in the index.
C9_Witness ==
    /\ pc = "done"
    /\ \E n, m \in 1..Len(observed) :
          /\ Cardinality(DerivedLabels(observed[n].text)) = 2
          /\ observed[m].file /= observed[n].file
          /\ DerivedLabels(observed[m].text) \cap DerivedLabels(observed[n].text) /= {}
          /\ Cardinality(MarkerWords(observed[m].text)) = 1

\* The words of the text include w.
HasWord(text, w) ==
    LET ws == SplitWhitespace(text) IN \E i \in 1..Len(ws) : ws[i] = w

\* C10: a call whose text has the word TODO or the word TODO: (or both) adds
\* one record under the label TODO; only one ":" is stripped, so nothing is
\* added under TODO: unless the text has the word TODO::.
C10_TodoColonIsTodo ==
    [][ (TrackerStep /\ (HasWord(Handed.text, <<"T", "O", "D", "O">>)
                          \/ HasWord(Handed.text, <<"T", "O", "D", "O", ":">>)))
            => /\ Count(comments_by_kind', <<"T", "O", "D", "O">>)
                      = Count(comments_by_kind, <<"T", "O", "D", "O">>) + 1
               /\ Count(comments_by_kind', <<"T", "O", "D", "O", ":">>)
                      = Count(comments_by_kind, <<"T", "O", "D", "O", ":">>)
                        + (IF HasWord(Handed.text, <<"T", "O", "D", "O", ":", ":">>)
                           THEN 1 ELSE 0)
      ]_vars

\* A text with both TODO and TODO: has been tracked, after one with TODO::.
C10_Witness ==
    /\ Len(observed) = 2
    /\ HasWord(observed[1].text, <<"T", "O", "D", "O", ":", ":">>)
    /\ HasWord(observed[2].text, <<"T", "O", "D", "O">>)
    /\ HasWord(observed[2].text, <<"T", "O", "D", "O", ":">>)
    /\ Count(comments_by_kind, <<"T", "O", "D", "O">>) = 1

\* C11 as stated: a trailing "-" is stripped like a trailing ":", so a call
\* whose text has the word TODO- adds its record under TODO and none under TODO-.
C11_DashStripped ==
    [][ (TrackerStep /\ HasWord(Handed.text, <<"T", "O", "D", "O", "-">>))
            => /\ Count(comments_by_kind', <<"T", "O", "D", "O">>)
                      = Count(comments_by_kind, <<"T", "O", "D", "O">>) + 1
               /\ Count(comments_by_kind', <<"T", "O", "D", "O", "-">>)
                      = Count(comments_by_kind, <<"T", "O", "D", "O", "-">>)
      ]_vars

\* C11 amended: only a trailing ":" is stripped, and only one.  A call whose
\* text has the word TODO- adds its record under the label TODO-, and adds one
\* under TODO only if the text also has the word TODO or TODO:; a call whose
\* text has FIXME: adds its record under FIXME.
C11_OnlyColonStripped ==
    [][ /\ (TrackerStep /\ HasWord(Handed.text, <<"T", "O", "D", "O", "-">>))
            => /\ Count(comments_by_kind', <<"T", "O", "D", "O", "-">>)
                      = Count(comments_by_kind, <<"T", "O", "D", "O", "-">>) + 1
               /\ Count(comments_by_kind', <<"T", "O", "D", "O">>)
                      = Count(comments_by_kind, <<"T", "O", "D", "O">>)
                        + (IF \/ HasWord(Handed.text, <<"T", "O", "D", "O">>)
                              \/ HasWord(Handed.text, <<"T", "O", "D", "O", ":">>)
                           THEN 1 ELSE 0)
        /\ (TrackerStep /\ HasWord(Handed.text, <<"F", "I", "X", "M", "E", ":">>))
            => /\ Count(comments_by_kind', <<"F", "I", "X", "M", "E">>)
                      = Count(comments_by_kind, <<"F", "I", "X", "M", "E">>) + 1
               /\ <<"F", "I", "X", "M", "E", ":">> \notin DOMAIN comments_by_kind'
      ]_vars

\* A text with the words TODO- and TODO has been tracked: one record under each.
C11_Witness ==
    /\ Len(observed) = 2
    /\ HasWord(observed[2].text, <<"T", "O", "D", "O", "-">>)
    /\ HasWord(observed[2].text, <<"T", "O", "D", "O">>)
    /\ HasWord(observed[1].text, <<"F", "I", "X", "M", "E", ":">>)
    /\ Count(comments_by_kind, <<"T", "O", "D", "O", "-">>) = 1
    /\ Count(comments_by_kind, <<"T", "O", "D", "O">>) = 1

\* C12: a call of found_possible_comment keeps every label, with its list as
\* it was as a prefix of its new list; a call whose text has no marker word
\* leaves the index as it was.
C12_AppendOnly ==
    [][ TrackerStep
            => /\ \A L \in DOMAIN comments_by_kind :
                     /\ L \in DOMAIN comments_by_kind'
                     /\ Len(comments_by_kind'[L]) >= Len(comments_by_kind[L])
                     /\ SubSeq(comments_by_kind'[L], 1, Len(comments_by_kind[L]))
                            = comments_by_kind[L]
               /\ (MarkerWords(Handed.text) = {}
                      => comments_by_kind' = comments_by_kind)
      ]_vars

\* A second comment has been appended to the list of a label, after the first.
C12_Witness ==
    /\ Len(observed) = 2
    /\ \E L \in DOMAIN comments_by_kind :
          /\ Len(comments_by_kind[L]) = 2
          /\ RecordOf(comments_by_kind[L][1], observed[1])
          /\ RecordOf(comments_by_kind[L][2], observed[2])
    /\ Cardinality(DOMAIN comments_by_kind) = 2

\* C18: a call adds one record under L if some word of the text starts with
\* XXX, FIXME or TODO (in capitals, at its start) and is L once a trailing ":"
\* is off, and none otherwise: TODOist and TODO-security are labels of their
\* own, todo and aTODO never are labels.
C18_MarkerIsExactPrefix ==
    [][ TrackerStep
            => LET words == SplitWhitespace(Handed.text)
                   labels == {WithoutColon(words[i]) :
                                 i \in {j \in 1..Len(words) : MarkerWord(words[j])}}
               IN /\ \A L \in DOMAIN comments_by_kind' \cup labels :
                        Count(comments_by_kind', L)
                            = Count(comments_by_kind, L) + (IF L \in labels THEN 1 ELSE 0)
                  /\ \A w \in { <<"T", "O", "D", "O", "i", "s", "t">>,
                               <<"T", "O", "D", "O", "-", "s", "e", "c", "u", "r", "i", "t", "y">> } :
                        HasWord(Handed.text, w)
                            => Count(comments_by_kind', w) = Count(comments_by_kind, w) + 1
                  /\ <<"t", "o", "d", "o">> \notin DOMAIN comments_by_kind'
                  /\ <<"a", "T", "O", "D", "O">> \notin DOMAIN comments_by_kind'
      ]_vars

\* After TODO-security, a text with TODOist, todo and aTODO has been tracked.
C18_Witness ==
    /\ Len(observed) = 2
    /\ HasWord(observed[1].text, <<"T", "O", "D", "O", "-", "s", "e", "c", "u", "r", "i", "t", "y">>)
    /\ HasWord(observed[2].text, <<"T", "O", "D", "O", "i", "s", "t">>)
    /\ HasWord(observed[2].text, <<"t", "o", "d", "o">>)
    /\ HasWord(observed[2].text, <<"a", "T", "O", "D", "O">>)
    /\ DOMAIN comments_by_kind =
           { <<"T", "O", "D", "O", "i", "s", "t">>,
             <<"T", "O", "D", "O", "-", "s", "e", "c", "u", "r", "i", "t", "y">> }

----------------------------------------------------------------------------
(* The extractor, step by step *)

\* next() is about to read a line; the line, trimmed.
Reading == pc = "while" /\ it_lines.iter /= <<>>
ThisLine == Trim(Head(it_lines.iter))

\* Line i starts with "/*" and has "*/" as well.
OneLineBlock(i) ==
    /\ StartsWith(Trimmed(i), <<"/", "*">>)
    /\ Contains(Trimmed(i), <<"*", "/">>)

\* Line i is one of the lines of the block b.
Covers(b, i) == b.start <= i /\ i < b.start + NumLines(b.text)

\* C16: in NoComment a line that starts with "/*" and has "*/" too starts no
\* block: it is read and not kept, the state stays NoComment and nothing is
\* returned; such a line outside a block comment is in no emitted block.
C16_OneLineBlockCommentSkipped ==
    /\ [][ (/\ Reading
            /\ state.kind = "NoComment"
            /\ StartsWith(ThisLine, <<"/", "*">>)
            /\ Contains(ThisLine, <<"*", "/">>))
               => /\ state' = NoComment
                  /\ lines' = <<>>
                  /\ pc' = "while"
                  /\ it_lines'.count = it_lines.count + 1
                  /\ UNCHANGED <<ret, emitted>>
         ]_vars
    /\ [](Exhausted =>
             \A i \in 1..NLines :
                 (OneLineBlock(i) /\ ~InsideBlock(i))
                     => \A n \in 1..Len(emitted) : ~Covers(emitted[n], i))

\* A "/* ... */" line was skipped and a comment after it was emitted.
C16_Witness ==
    /\ Exhausted
    /\ \E i \in 1..NLines :
          /\ OneLineBlock(i)
          /\ ~InsideBlock(i)
          /\ \E n \in 1..Len(emitted) : emitted[n].start = i + 1

\* C17: in InBlockComment every line is pushed and the state stays what it
\* is, also when the line starts with "/*" or "//"; the first line that is
\* "*/" ends the block, which is returned with all the lines from its start.
C17_NoNestedBlockComments ==
    [][ (Reading /\ state.kind = "InBlockComment")
            => /\ lines' = Append(lines, ThisLine)
               /\ state' = state
               /\ IF ThisLine = <<"*", "/">>
                  THEN /\ pc' = "item"
                       /\ ret' = Some(state.start,
                                      BlockText(state.start, it_lines.count + 1))
                  ELSE pc' = "while" /\ ret' = ret
      ]_vars

\* A block comment with a "/*" or "//" line inside it has been returned.
C17_Witness ==
    /\ pc = "item"
    /\ ret.tag = "Some"
    /\ StartsWith(ret.text, <<"/", "*">>)
    /\ Terminated(ret)
    /\ \E i \in (ret.start + 1)..(ret.start + NumLines(ret.text) - 1) :
          SlashStar(i) \/ SlashSlash(i)

\* The blocks next() has returned so far, in order.
Blocks == emitted \o (IF pc = "item" /\ ret.tag = "Some" THEN <<ret>> ELSE <<>>)

\* C19: every block is the lines from its starting line to some later line of
\* the file, and starts after the last line of the block before it: starting
\* lines go up strictly and no line is in two blocks.
C19_BlocksDisjointAndIncreasing ==
    \A n \in 1..Len(Blocks) :
        LET b == Blocks[n]
            last == b.start + NumLines(b.text) - 1
        IN /\ 1 <= b.start
           /\ b.start <= last
           /\ last <= NLines
           /\ b.text = BlockText(b.start, last)
           /\ n > 1 => /\ Blocks[n - 1].start < b.start
                       /\ \A i \in 1..NLines : ~(Covers(Blocks[n - 1], i) /\ Covers(b, i))

\* Two blocks have been emitted, the second right after the first.
C19_Witness ==
    /\ Exhausted
    /\ Len(emitted) = 2
    /\ emitted[2].start = emitted[1].start + NumLines(emitted[1].text)

\* C20: the Vec of lines is empty in state NoComment and not empty in
\* InLineComment and InBlockComment, so the assertion of line 286 holds.
C20_LinesEmptyIffNoComment ==
    /\ state.kind = "NoComment" => lines = <<>>
    /\ state.kind \in {"InLineComment", "InBlockComment"} => lines /= <<>>

\* The lines ran out in NoComment, after a comment and a line that is none.
C20_Witness ==
    /\ pc = "while"
    /\ it_lines.iter = <<>>
    /\ state.kind = "NoComment"
    /\ ret.tag = "Some"
    /\ it_lines.count = NLines
    /\ ~SlashSlash(NLines) /\ ~SlashStar(NLines) /\ ~InsideBlock(NLines)

----------------------------------------------------------------------------
(* The whole scan *)

\* C13: the marker words of a block handed to the tracker are marker words of
\* the file being read, and while no block handed to the tracker has a marker
\* word the index has no label at all: files without marker words leave the
\* index empty.
C13_NoMarkersEmptyIndex ==
    /\ [][TrackerStep => MarkerWords(Handed.text) \subseteq MarkerWords(contents)]_vars
    /\ []((\A n \in 1..Len(observed) : MarkerWords(observed[n].text) = {})
             => DOMAIN comments_by_kind = {})

\* The scan is over: comments of two files were tracked, none with a marker
\* word, one of them with the words todo and aTODO; the index is empty.
C13_Witness ==
    /\ pc = "done"
    /\ comments_by_kind = EmptyIndex
    /\ \E n, m \in 1..Len(observed) :
          /\ observed[n].file /= observed[m].file
          /\ HasWord(observed[n].text, <<"a", "T", "O", "D", "O">>)
    /\ \A n \in 1..Len(observed) : MarkerWords(observed[n].text) = {}

\* C14: a step that writes a warning (the walk, open, metadata or read failed
\* for the entry) writes one, leaves the index and the tracked comments as
\* they were, and leaves main in its loop with the entries after this one
\* still to come; the scan ends only when the walk has no entry left.
C14_FailureIsAWarning ==
    /\ [][ warnings' /= warnings
               => /\ pc = "main" /\ pc' = "main"
                  /\ walker /= <<>> /\ walker' = Tail(walker)
                  /\ Len(warnings') = Len(warnings) + 1
                  /\ SubSeq(warnings', 1, Len(warnings)) = warnings
                  /\ warnings'[Len(warnings')].path \in {<<>>, Head(walker).path}
                  /\ comments_by_kind' = comments_by_kind
                  /\ observed' = observed
         ]_vars
    /\ [](pc \in {"main", "next", "while", "item", "done"})
    /\ [](pc = "done" => walker = <<>>)

\* The first file could not be opened; the second was read and its comment
\* tracked; the walk then failed on the last entry; the scan is over.
C14_Witness ==
    /\ pc = "done"
    /\ Len(warnings) = 2
    /\ warnings[1] = [context |-> "open", path |-> <<"a", ".", "r", "s">>]
    /\ warnings[2].context = "walking tree"
    /\ observed /= <<>>
    /\ observed[1].file = <<"s", "/", "b", ".", "r", "s">>
    /\ comments_by_kind /= EmptyIndex

\* The places of the index: label and position in the label's list.
Places(index) ==
    UNION {{<<L, i>> : i \in 1..Len(index[L])} : L \in DOMAIN index}

\* The tracked comments with a marker word, by their position in `observed`.
Tagged == {n \in 1..Len(observed) : MarkerWords(observed[n].text) /= {}}

\* C15: the total of the summary is the number of records over all labels,
\* which is the number of pairs of a tracked comment and one of its labels.
\* When the only comments with marker words are one with TODO: in one file and
\* one with XXX in another, the labels are TODO and XXX, with one record each,
\* and the total is 2.
C15_TotalIsSumOfLists ==
    pc = "done" =>
        /\ total = Cardinality(Places(comments_by_kind))
        /\ total = Cardinality(UNION {{<<n, L>> : L \in DerivedLabels(observed[n].text)}
                                         : n \in 1..Len(observed)})
        /\ \A n, m \in Tagged :
              (/\ Tagged = {n, m}
               /\ observed[n].file /= observed[m].file
               /\ MarkerWords(observed[n].text) = {<<"T", "O", "D", "O", ":">>}
               /\ MarkerWords(observed[m].text) = {<<"X", "X", "X">>})
                  => /\ DOMAIN comments_by_kind = {<<"T", "O", "D", "O">>, <<"X", "X", "X">>}
                     /\ Len(comments_by_kind[<<"T", "O", "D", "O">>]) = 1
                     /\ RecordOf(comments_by_kind[<<"T", "O", "D", "O">>][1], observed[n])
                     /\ Len(comments_by_kind[<<"X", "X", "X">>]) = 1
                     /\ RecordOf(comments_by_kind[<<"X", "X", "X">>][1], observed[m])
                     /\ total = 2

\* The scan is over: one file had "TODO: fix" on line 3, the other "XXX nope"
\* on line 2, and the total is 2.
C15_Witness ==
    /\ pc = "done"
    /\ total = 2
    /\ observed =
         << [text |-> <<"/", "*", " ", "X", "X", "X", " ", "n", "o", "p", "e", "\n">>,
             file |-> <<"a", ".", "r", "s">>, line |-> 2],
            [text |-> <<"/", "/", " ", "T", "O", "D", "O", ":", " ", "f", "i", "x", "\n">>,
             file |-> <<"s", "/", "b", ".", "r", "s">>, line |-> 3] >>

====
